---- MODULE Spec2Model ----
(***************************************************************************)
(* Model of beginner/draw-modem/src/main.rs: the receive loop of `idle`    *)
(* (lines 113-153) and the validator/decoder `process_message` (lines      *)
(* 160-196).                                                               *)
(*                                                                         *)
(* The loop is one sequential control flow.  `pc` is its position, named   *)
(* after the states of the receive loop:                                   *)
(*   Idle          line 118, about to call DW1000.receive()                *)
(*   StartFailed   line 121, receive() returned Err                        *)
(*   AwaitingFrame line 128, timer armed, blocked in block_timeout!        *)
(*   Dispatch      line 130, wait returned Ok(message)                     *)
(*   TimedOut      line 142, wait returned Err(Timeout)                    *)
(*   HardwareError line 146, wait returned Err(Other(error))               *)
(*                                                                         *)
(* logs, data, timerOps, message, error, startResult, waitResult and resp  *)
(* record what the current loop iteration has done; they are cleared when  *)
(* the next iteration starts (line 118), so at pc = "Idle" they describe   *)
(* the iteration that has just ended.  strbuf is the loop's String buffer, *)
(* which lives across iterations (line 115).                               *)
(*                                                                         *)
(* arrived, seqno and handled observe the order of work across iterations: *)
(* the first MaxFrames frames the transceiver delivers are numbered as     *)
(* they arrive (arrived counts them, seqno is the number of the current    *)
(* iteration's frame, 0 when it has none), and handled lists the numbers   *)
(* in the order in which the loop emitted the frame's event or diagnostic. *)
(* memo keeps, for the first frame of ProbeFrames the loop dispatches, the *)
(* frame and everything its iteration produced, to compare with later      *)
(* iterations that receive the same frame; fresh marks the iteration that  *)
(* recorded it.                                                            *)
(*                                                                         *)
(* Every Logger call in the source is followed by .unwrap(); the Logger    *)
(* is an external collaborator and its calls are modelled as returning Ok. *)
(***************************************************************************)
EXTENDS Integers, Sequences, FiniteSets, TLC

VARIABLES pc, rxHandles, message, error, strbuf, logs, data, timerOps,
          startResult, waitResult, resp, arrived, seqno, handled, memo

vars == <<pc, rxHandles, message, error, strbuf, logs, data, timerOps,
          startResult, waitResult, resp, arrived, seqno, handled, memo>>

---------------------------------------------------------------------------
(* Program constants *)

MODEM_PAN == 902

MODEM_ADDR == 2056

BROADCAST == 65535

RX_TIMEOUT == 1000000

START_BACKOFF == 250000

(* Bounds of the model *)

MaxPayloadLen == 2

MaxFrames == 2

---------------------------------------------------------------------------
(* Inputs: what the transceiver can deliver *)

PanIds == {MODEM_PAN, 903, BROADCAST}

ShortAddrs == {257, MODEM_ADDR, 2057, BROADCAST}

Addresses == [pan_id : PanIds, short_addr : ShortAddrs]

\* the variant index of SetCell and one other byte value
Bytes == {0, 1}

Payloads == UNION {[1..n -> Bytes] : n \in 0..MaxPayloadLen}

Messages == [header : [source : Addresses, destination : Addresses],
             payload : Payloads]

RxErrors == {"Fcs", "Phy"}

\* Frames from 0x0101 in the modem's pan whose outcome is remembered: one
\* published, one that fails to decode, two rejected by the addressing checks.
ProbeFrames ==
    {m \in Messages :
        /\ m.header.source = [pan_id |-> MODEM_PAN, short_addr |-> 257]
        /\ \/ /\ m.header.destination =
                    [pan_id |-> MODEM_PAN, short_addr |-> MODEM_ADDR]
              /\ m.payload \in {<<0, 1>>, <<1>>}
           \/ /\ m.header.destination \in
                    {[pan_id |-> MODEM_PAN, short_addr |-> 2057],
                     [pan_id |-> 903, short_addr |-> MODEM_ADDR]}
              /\ m.payload = <<0, 1>>}

---------------------------------------------------------------------------
(* Payload decoding: postcard::from_bytes::<RadioMessages>.  The enum's   *)
(* variant index comes first, then the variant's content; bytes after the *)
(* value are ignored.  The cell is opaque: CELL_LEN bytes.                *)

SETCELL_TAG == 0

CELL_LEN == 1

from_bytes(payload) ==
    IF Len(payload) >= 1 + CELL_LEN /\ payload[1] = SETCELL_TAG
    THEN [ok |-> TRUE, variant |-> "SetCell",
          cell |-> SubSeq(payload, 2, 1 + CELL_LEN)]
    ELSE [ok |-> FALSE, variant |-> "None", cell |-> <<>>]

---------------------------------------------------------------------------
(* Logger records and text formatting *)

Line(level, text) == [level |-> level, text |-> text]

HexDigits ==
    <<"0", "1", "2", "3", "4", "5", "6", "7",
      "8", "9", "A", "B", "C", "D", "E", "F">>

\* {:04X} of a u16
Hex4(n) ==
    HexDigits[((n \div 4096) % 16) + 1] \o HexDigits[((n \div 256) % 16) + 1]
        \o HexDigits[((n \div 16) % 16) + 1] \o HexDigits[(n % 16) + 1]

BadMessageText(msg) ==
    "^ Bad message from src 0x" \o Hex4(msg.header.source.short_addr)

RxErrorText(e) == "RX: " \o e

---------------------------------------------------------------------------
(* process_message: its return value and the lines it hands to the logger *)

NoEvent == [kind |-> "None", source |-> 0, dest |-> 0, cell |-> <<>>]

Rejected(lines) == [ok |-> FALSE, event |-> NoEvent, logged |-> lines]

Accepted(ev) == [ok |-> TRUE, event |-> ev, logged |-> <<>>]

(* Variants of process_message used to test the properties below: the     *)
(* addressing checks taken in another order, the routing fields crossed,  *)
(* the decode warning left out.                                           *)

CheckFails(i, h) ==
    CASE i = 1 -> h.source.pan_id = BROADCAST
      [] i = 2 -> h.source.short_addr = BROADCAST
      [] i = 3 -> h.destination.pan_id # h.source.pan_id
      [] i = 4 -> h.destination.short_addr # MODEM_ADDR

CheckText(i) ==
    CASE i = 1 -> "bad bdcst pan!"
      [] i = 2 -> "bad bdcst addr!"
      [] i = 3 -> "mismatch pan!"
      [] i = 4 -> "that ain't me"

process_message_variant(msg, order, crossed, warns) ==
    LET h == msg.header
        failing == {k \in 1..4 : CheckFails(order[k], h)}
        first == CHOOSE k \in failing : \A j \in failing : k <= j
        pmsg == from_bytes(msg.payload)
    IN IF failing # {}
       THEN Rejected(<<Line("error", CheckText(order[first]))>>)
       ELSE IF pmsg.ok
       THEN Accepted([kind |-> "SetCell",
                      source |-> IF crossed THEN h.destination.short_addr
                                 ELSE h.source.short_addr,
                      dest |-> IF crossed THEN h.source.short_addr
                               ELSE h.destination.short_addr,
                      cell |-> pmsg.cell])
       ELSE Rejected(IF warns THEN <<Line("warn", "Failed to decode!")>>
                     ELSE <<>>)

process_message_swap12(msg) ==
    process_message_variant(msg, <<2, 1, 3, 4>>, FALSE, TRUE)

process_message_swap23(msg) ==
    process_message_variant(msg, <<1, 3, 2, 4>>, FALSE, TRUE)

process_message_swap34(msg) ==
    process_message_variant(msg, <<1, 2, 4, 3>>, FALSE, TRUE)

process_message_crossed(msg) ==
    process_message_variant(msg, <<1, 2, 3, 4>>, TRUE, TRUE)

process_message_silent(msg) ==
    process_message_variant(msg, <<1, 2, 3, 4>>, FALSE, FALSE)

\* a decode failure logged at error level
process_message_loud(msg) ==
    LET r == process_message_variant(msg, <<1, 2, 3, 4>>, FALSE, TRUE)
    IN IF r.logged = <<Line("warn", "Failed to decode!")>>
       THEN Rejected(<<Line("error", "Failed to decode!")>>)
       ELSE r

\* the destination address is not checked
process_message_nocheck4(msg) ==
    process_message_variant(msg, <<1, 2, 3, 3>>, FALSE, TRUE)

\* the frame's pan is also required to be the modem's own
process_message_localpan(msg) ==
    IF /\ msg.header.source.pan_id # BROADCAST
       /\ msg.header.source.short_addr # BROADCAST
       /\ msg.header.destination.pan_id # MODEM_PAN
    THEN Rejected(<<Line("error", "mismatch pan!")>>)
    ELSE process_message_variant(msg, <<1, 2, 3, 4>>, FALSE, TRUE)

\* the payload is decoded before the header is checked
process_message_decodeFirst(msg) ==
    IF ~from_bytes(msg.payload).ok
    THEN Rejected(<<Line("warn", "Failed to decode!")>>)
    ELSE process_message_variant(msg, <<1, 2, 3, 4>>, FALSE, TRUE)

process_message(msg) ==
    LET h == msg.header IN
    IF h.source.pan_id = BROADCAST
    THEN Rejected(<<Line("error", "bad bdcst pan!")>>)
    ELSE IF h.source.short_addr = BROADCAST
    THEN Rejected(<<Line("error", "bad bdcst addr!")>>)
    ELSE IF h.destination.pan_id # h.source.pan_id
    THEN Rejected(<<Line("error", "mismatch pan!")>>)
    ELSE IF h.destination.short_addr # MODEM_ADDR
    THEN Rejected(<<Line("error", "that ain't me")>>)
    ELSE LET pmsg == from_bytes(msg.payload) IN
         IF pmsg.ok
         THEN Accepted([kind |-> "SetCell",
                        source |-> h.source.short_addr,
                        dest |-> h.destination.short_addr,
                        cell |-> pmsg.cell])
         ELSE Rejected(<<Line("warn", "Failed to decode!")>>)

---------------------------------------------------------------------------
(* The receive loop *)

Init ==
    /\ pc = "Idle"
    /\ rxHandles = 0
    /\ message = <<>>
    /\ error = ""
    /\ strbuf = ""
    /\ logs = <<>>
    /\ data = <<>>
    /\ timerOps = <<>>
    /\ startResult = "None"
    /\ waitResult = "None"
    /\ resp = <<>>
    /\ arrived = 0
    /\ seqno = 0
    /\ handled = <<>>
    /\ memo = <<>>

\* ReceiveOk without arming the receive timeout
ReceiveOk_noarm ==
    /\ pc = "Idle"
    /\ pc' = "AwaitingFrame"
    /\ rxHandles' = rxHandles + 1
    /\ timerOps' = <<>>
    /\ startResult' = "Ok"
    /\ waitResult' = "None"
    /\ message' = <<>>
    /\ error' = ""
    /\ logs' = <<>>
    /\ data' = <<>>
    /\ resp' = <<>>
    /\ UNCHANGED strbuf
    /\ seqno' = 0
    /\ UNCHANGED <<arrived, handled>>
    /\ memo' = IF memo = <<>> THEN memo
               ELSE <<[memo[1] EXCEPT !.fresh = FALSE]>>

\* line 118 Ok branch, line 126: the handle is bound to rx and the timeout armed
ReceiveOk ==
    /\ pc = "Idle"
    /\ pc' = "AwaitingFrame"
    /\ rxHandles' = rxHandles + 1
    /\ timerOps' = <<[op |-> "start", cycles |-> RX_TIMEOUT]>>
    /\ startResult' = "Ok"
    /\ waitResult' = "None"
    /\ message' = <<>>
    /\ error' = ""
    /\ logs' = <<>>
    /\ data' = <<>>
    /\ resp' = <<>>
    /\ UNCHANGED strbuf
    /\ seqno' = 0
    /\ UNCHANGED <<arrived, handled>>
    /\ memo' = IF memo = <<>> THEN memo
               ELSE <<[memo[1] EXCEPT !.fresh = FALSE]>>

\* line 118 Err branch
ReceiveFail ==
    /\ pc = "Idle"
    /\ pc' = "StartFailed"
    /\ timerOps' = <<>>
    /\ startResult' = "Err"
    /\ waitResult' = "None"
    /\ message' = <<>>
    /\ error' = ""
    /\ logs' = <<>>
    /\ data' = <<>>
    /\ resp' = <<>>
    /\ UNCHANGED <<rxHandles, strbuf>>
    /\ seqno' = 0
    /\ UNCHANGED <<arrived, handled>>
    /\ memo' = IF memo = <<>> THEN memo
               ELSE <<[memo[1] EXCEPT !.fresh = FALSE]>>

\* StartFailed without the backoff delay
StartFailed_nodelay ==
    /\ pc = "StartFailed"
    /\ logs' = Append(logs, Line("warn", "Failed to start receive!"))
    /\ pc' = "Idle"
    /\ UNCHANGED <<rxHandles, message, error, strbuf, data, timerOps,
                   startResult, waitResult, resp>>
    /\ UNCHANGED <<arrived, seqno, handled>>
    /\ UNCHANGED memo

\* lines 121-123
StartFailed ==
    /\ pc = "StartFailed"
    /\ logs' = Append(logs, Line("warn", "Failed to start receive!"))
    /\ timerOps' = Append(timerOps, [op |-> "delay", cycles |-> START_BACKOFF])
    /\ pc' = "Idle"
    /\ UNCHANGED <<rxHandles, message, error, strbuf, data, startResult,
                   waitResult, resp>>
    /\ UNCHANGED <<arrived, seqno, handled>>
    /\ UNCHANGED memo

\* line 128, Ok(message)
WaitFrame ==
    /\ pc = "AwaitingFrame"
    /\ \E m \in Messages : message' = <<m>>
    /\ waitResult' = "Frame"
    /\ pc' = "Dispatch"
    /\ UNCHANGED <<rxHandles, error, strbuf, logs, data, timerOps,
                   startResult, resp>>
    /\ arrived' = IF arrived < MaxFrames THEN arrived + 1 ELSE arrived
    /\ seqno' = IF arrived < MaxFrames THEN arrived + 1 ELSE 0
    /\ UNCHANGED handled
    /\ UNCHANGED memo

\* line 128, Err(TimeoutError::Timeout)
WaitTimeout ==
    /\ pc = "AwaitingFrame"
    /\ waitResult' = "Timeout"
    /\ pc' = "TimedOut"
    /\ UNCHANGED <<rxHandles, message, error, strbuf, logs, data, timerOps,
                   startResult, resp>>
    /\ UNCHANGED <<arrived, seqno, handled>>
    /\ UNCHANGED memo

\* line 128, Err(TimeoutError::Other(error))
WaitError ==
    /\ pc = "AwaitingFrame"
    /\ \E e \in RxErrors : error' = e
    /\ waitResult' = "Other"
    /\ pc' = "HardwareError"
    /\ UNCHANGED <<rxHandles, message, strbuf, logs, data, timerOps,
                   startResult, resp>>
    /\ UNCHANGED <<arrived, seqno, handled>>
    /\ UNCHANGED memo

\* Dispatch that sets the frame aside and returns to the loop top
Dispatch_defer ==
    /\ pc = "Dispatch"
    /\ rxHandles' = rxHandles - 1
    /\ pc' = "Idle"
    /\ UNCHANGED <<message, error, strbuf, logs, data, timerOps, startResult,
                   waitResult, resp, arrived, seqno, handled, memo>>

\* Dispatch that formats the warning without clearing strbuf first
Dispatch_noclear ==
    /\ pc = "Dispatch"
    /\ LET msg == message[1]
           r == process_message(msg)
       IN /\ resp' = <<r>>
          /\ IF r.ok
             THEN /\ logs' = logs \o r.logged
                  /\ data' = Append(data, r.event)
                  /\ UNCHANGED strbuf
             ELSE /\ strbuf' = strbuf \o BadMessageText(msg)
                  /\ logs' = Append(logs \o r.logged,
                                    Line("warn", strbuf \o BadMessageText(msg)))
                  /\ UNCHANGED data
    /\ rxHandles' = rxHandles - 1
    /\ pc' = "Idle"
    /\ UNCHANGED <<message, error, timerOps, startResult, waitResult>>
    /\ handled' = IF seqno # 0 THEN Append(handled, seqno) ELSE handled
    /\ UNCHANGED <<arrived, seqno>>
    /\ memo' = IF memo = <<>> /\ message[1] \in ProbeFrames
               THEN <<[msg |-> message[1], resp |-> resp', logs |-> logs',
                       data |-> data', fresh |-> TRUE]>>
               ELSE memo

\* Dispatch that publishes whatever process_message returned
Dispatch_publishAlways ==
    /\ pc = "Dispatch"
    /\ LET msg == message[1]
           r == process_message(msg)
       IN /\ resp' = <<r>>
          /\ data' = Append(data, r.event)
          /\ IF r.ok
             THEN /\ logs' = logs \o r.logged
                  /\ UNCHANGED strbuf
             ELSE /\ strbuf' = BadMessageText(msg)
                  /\ logs' = Append(logs \o r.logged,
                                    Line("warn", BadMessageText(msg)))
    /\ rxHandles' = rxHandles - 1
    /\ pc' = "Idle"
    /\ UNCHANGED <<message, error, timerOps, startResult, waitResult>>
    /\ handled' = IF seqno # 0 THEN Append(handled, seqno) ELSE handled
    /\ UNCHANGED <<arrived, seqno>>
    /\ memo' = IF memo = <<>> /\ message[1] \in ProbeFrames
               THEN <<[msg |-> message[1], resp |-> resp', logs |-> logs',
                       data |-> data', fresh |-> TRUE]>>
               ELSE memo

\* Dispatch without the loop's own warning for a failed frame
Dispatch_nowarn ==
    /\ pc = "Dispatch"
    /\ LET msg == message[1]
           r == process_message(msg)
       IN /\ resp' = <<r>>
          /\ logs' = logs \o r.logged
          /\ IF r.ok
             THEN data' = Append(data, r.event)
             ELSE UNCHANGED data
    /\ rxHandles' = rxHandles - 1
    /\ pc' = "Idle"
    /\ UNCHANGED <<message, error, strbuf, timerOps, startResult, waitResult>>
    /\ handled' = IF seqno # 0 THEN Append(handled, seqno) ELSE handled
    /\ UNCHANGED <<arrived, seqno>>
    /\ memo' = IF memo = <<>> /\ message[1] \in ProbeFrames
               THEN <<[msg |-> message[1], resp |-> resp', logs |-> logs',
                       data |-> data', fresh |-> TRUE]>>
               ELSE memo

\* lines 129-140, then the end of the loop body (rx goes out of scope)
Dispatch ==
    /\ pc = "Dispatch"
    /\ LET msg == message[1]
           r == process_message(msg)
       IN /\ resp' = <<r>>
          /\ IF r.ok
             THEN /\ logs' = logs \o r.logged
                  /\ data' = Append(data, r.event)
                  /\ UNCHANGED strbuf
             ELSE /\ strbuf' = BadMessageText(msg)
                  /\ logs' = Append(logs \o r.logged,
                                    Line("warn", BadMessageText(msg)))
                  /\ UNCHANGED data
    /\ rxHandles' = rxHandles - 1
    /\ pc' = "Idle"
    /\ UNCHANGED <<message, error, timerOps, startResult, waitResult>>
    /\ handled' = IF seqno # 0 THEN Append(handled, seqno) ELSE handled
    /\ UNCHANGED <<arrived, seqno>>
    /\ memo' = IF memo = <<>> /\ message[1] \in ProbeFrames
               THEN <<[msg |-> message[1], resp |-> resp', logs |-> logs',
                       data |-> data', fresh |-> TRUE]>>
               ELSE memo

\* TimedOut with the receive handle kept alive into the next iteration
TimedOut_keepRx ==
    /\ pc = "TimedOut"
    /\ logs' = Append(logs, Line("info", "RX Timeout"))
    /\ pc' = "Idle"
    /\ UNCHANGED <<rxHandles, message, error, strbuf, data, timerOps,
                   startResult, waitResult, resp>>
    /\ UNCHANGED <<arrived, seqno, handled>>
    /\ UNCHANGED memo

\* TimedOut with the start-failure backoff applied to it as well
TimedOut_backoff ==
    /\ pc = "TimedOut"
    /\ logs' = Append(logs, Line("info", "RX Timeout"))
    /\ timerOps' = Append(timerOps, [op |-> "delay", cycles |-> START_BACKOFF])
    /\ rxHandles' = rxHandles - 1
    /\ pc' = "Idle"
    /\ UNCHANGED <<message, error, strbuf, data, startResult, waitResult, resp>>
    /\ UNCHANGED <<arrived, seqno, handled>>
    /\ UNCHANGED memo

\* lines 141-144
TimedOut ==
    /\ pc = "TimedOut"
    /\ logs' = Append(logs, Line("info", "RX Timeout"))
    /\ rxHandles' = rxHandles - 1
    /\ pc' = "Idle"
    /\ UNCHANGED <<message, error, strbuf, data, timerOps, startResult,
                   waitResult, resp>>
    /\ UNCHANGED <<arrived, seqno, handled>>
    /\ UNCHANGED memo

\* HardwareError leaving the loop instead of continuing
HardwareError_exit ==
    /\ pc = "HardwareError"
    /\ strbuf' = RxErrorText(error)
    /\ logs' = Append(logs, Line("error", RxErrorText(error)))
    /\ rxHandles' = rxHandles - 1
    /\ pc' = "Exited"
    /\ UNCHANGED <<message, error, data, timerOps, startResult, waitResult,
                   resp>>
    /\ UNCHANGED <<arrived, seqno, handled>>
    /\ UNCHANGED memo

\* HardwareError reported as a warning without the error detail
HardwareError_warn ==
    /\ pc = "HardwareError"
    /\ strbuf' = "RX: "
    /\ logs' = Append(logs, Line("warn", "RX: "))
    /\ rxHandles' = rxHandles - 1
    /\ pc' = "Idle"
    /\ UNCHANGED <<message, error, data, timerOps, startResult, waitResult,
                   resp>>
    /\ UNCHANGED <<arrived, seqno, handled>>
    /\ UNCHANGED memo

\* lines 145-150
HardwareError ==
    /\ pc = "HardwareError"
    /\ strbuf' = RxErrorText(error)
    /\ logs' = Append(logs, Line("error", RxErrorText(error)))
    /\ rxHandles' = rxHandles - 1
    /\ pc' = "Idle"
    /\ UNCHANGED <<message, error, data, timerOps, startResult, waitResult,
                   resp>>
    /\ UNCHANGED <<arrived, seqno, handled>>
    /\ UNCHANGED memo

Next ==
    \/ ReceiveOk
    \/ ReceiveFail
    \/ StartFailed
    \/ WaitFrame
    \/ WaitTimeout
    \/ WaitError
    \/ Dispatch
    \/ TimedOut
    \/ HardwareError

Spec == Init /\ [][Next]_vars

\* The loop is the only control flow and every blocking call returns: the
\* wait is bounded by the armed timeout and the backoff by its timer.
LiveSpec == Spec /\ WF_vars(Next)

---------------------------------------------------------------------------
(* Properties.  FrameDone: the iteration that received `message` has run   *)
(* to the end of the loop body, so logs and data hold everything it did.   *)

FrameDone == pc = "Idle" /\ waitResult = "Frame"

hdr == message[1].header

ErrorLines == SelectSeq(logs, LAMBDA l : l.level = "error")

Reason(text) == <<Line("error", text)>>

PassesAddressing ==
    /\ hdr.source.pan_id # BROADCAST
    /\ hdr.source.short_addr # BROADCAST
    /\ hdr.destination.pan_id = hdr.source.pan_id
    /\ hdr.destination.short_addr = MODEM_ADDR

\* C1: the four addressing checks are applied in the order source pan is
\* broadcast, source address is broadcast, pan mismatch, not addressed to the
\* modem; the only error-level line of a frame is the one of the first check
\* that fails, process_message logs nothing after it, and a frame that fails
\* none of them gets no error-level line.
C1_FirstFailingCheckWins ==
    FrameDone =>
        /\ hdr.source.pan_id = BROADCAST
             => ErrorLines = Reason("bad bdcst pan!")
        /\ (hdr.source.pan_id # BROADCAST
            /\ hdr.source.short_addr = BROADCAST)
             => ErrorLines = Reason("bad bdcst addr!")
        /\ (hdr.source.pan_id # BROADCAST
            /\ hdr.source.short_addr # BROADCAST
            /\ hdr.destination.pan_id # hdr.source.pan_id)
             => ErrorLines = Reason("mismatch pan!")
        /\ (hdr.source.pan_id # BROADCAST
            /\ hdr.source.short_addr # BROADCAST
            /\ hdr.destination.pan_id = hdr.source.pan_id
            /\ hdr.destination.short_addr # MODEM_ADDR)
             => ErrorLines = Reason("that ain't me")
        /\ PassesAddressing => ErrorLines = <<>>
        /\ ~PassesAddressing => resp[1].logged = ErrorLines /\ ~resp[1].ok

\* A frame whose source address is broadcast and whose pans differ (checks 2
\* and 3 both fail) has been rejected for its source address.
C1_Witness ==
    /\ FrameDone
    /\ hdr.source.pan_id = MODEM_PAN
    /\ hdr.source.short_addr = BROADCAST
    /\ hdr.destination.pan_id # MODEM_PAN
    /\ hdr.destination.short_addr # MODEM_ADDR
    /\ ErrorLines = Reason("bad bdcst addr!")

\* C2: a frame whose source pan is broadcast is rejected as
\* bad-broadcast-source-pan whatever its other fields and payload: that is the
\* one line process_message logs, the result is a failure and nothing is
\* published.
C2_BroadcastSourcePan ==
    (FrameDone /\ hdr.source.pan_id = BROADCAST) =>
        /\ resp[1].logged = Reason("bad bdcst pan!")
        /\ \A i \in 1..Len(logs) :
             logs[i].text \notin {"bad bdcst addr!", "mismatch pan!",
                                  "that ain't me", "Failed to decode!"}
        /\ ~resp[1].ok
        /\ data = <<>>

\* Every other check would fail too: broadcast source address, destination
\* pan differs, destination is not the modem, payload does not decode.
C2_Witness ==
    /\ FrameDone
    /\ hdr.source.pan_id = BROADCAST
    /\ hdr.source.short_addr = BROADCAST
    /\ hdr.destination.pan_id = MODEM_PAN
    /\ hdr.destination.short_addr # MODEM_ADDR
    /\ ~from_bytes(message[1].payload).ok
    /\ ErrorLines = Reason("bad bdcst pan!")

\* C3 as stated: every frame whose destination pan differs from its source
\* pan is rejected as pan-mismatch.
C3_Original ==
    (FrameDone /\ hdr.destination.pan_id # hdr.source.pan_id) =>
        ErrorLines = Reason("mismatch pan!")

\* C3 amended: a frame whose destination pan differs from its source pan, and
\* whose source pan and source address are not broadcast, is rejected as
\* pan-mismatch, whatever its destination address and payload.
C3_PanMismatch ==
    (/\ FrameDone
     /\ hdr.destination.pan_id # hdr.source.pan_id
     /\ hdr.source.pan_id # BROADCAST
     /\ hdr.source.short_addr # BROADCAST) =>
        /\ ErrorLines = Reason("mismatch pan!")
        /\ resp[1].logged = Reason("mismatch pan!")
        /\ ~resp[1].ok
        /\ data = <<>>

\* The destination is not the modem either (check 4 would fail as well).
C3_Witness ==
    /\ FrameDone
    /\ hdr.source.pan_id = MODEM_PAN
    /\ hdr.source.short_addr = 257
    /\ hdr.destination.pan_id = 903
    /\ hdr.destination.short_addr = 2057
    /\ ErrorLines = Reason("mismatch pan!")

\* C4: a frame that passes the four checks and whose payload decodes to
\* SetCell(C) makes process_message return the event SetCell with source and
\* dest the header's short addresses and cell C, and the loop publishes
\* exactly that event.
C4_SetCellPublished ==
    (/\ FrameDone
     /\ PassesAddressing
     /\ from_bytes(message[1].payload).ok
     /\ from_bytes(message[1].payload).variant = "SetCell") =>
        LET ev == [kind |-> "SetCell",
                   source |-> hdr.source.short_addr,
                   dest |-> hdr.destination.short_addr,
                   cell |-> from_bytes(message[1].payload).cell]
        IN /\ resp[1].ok
           /\ resp[1].event = ev
           /\ data = <<ev>>

\* source=(0x0386,0x0101), destination=(0x0386,0x0808), SetCell(<<1>>).
C4_Witness ==
    /\ FrameDone
    /\ hdr.source = [pan_id |-> 902, short_addr |-> 257]
    /\ hdr.destination = [pan_id |-> 902, short_addr |-> 2056]
    /\ message[1].payload = <<0, 1>>
    /\ data = <<[kind |-> "SetCell", source |-> 257, dest |-> 2056,
                 cell |-> <<1>>]>>

\* C5: a frame that passes the four checks and whose payload does not decode
\* gets the warning "Failed to decode!" from process_message, which returns
\* failure, and nothing is published for it.
C5_DecodeFailure ==
    (/\ FrameDone
     /\ PassesAddressing
     /\ ~from_bytes(message[1].payload).ok) =>
        /\ resp[1].logged = <<Line("warn", "Failed to decode!")>>
        /\ logs[1] = Line("warn", "Failed to decode!")
        /\ ~resp[1].ok
        /\ data = <<>>

\* A payload with an unknown variant index, from an otherwise valid frame.
C5_Witness ==
    /\ FrameDone
    /\ PassesAddressing
    /\ message[1].payload = <<1, 0>>
    /\ logs[1] = Line("warn", "Failed to decode!")
    /\ data = <<>>

\* The source address as the loop's warning prints it.
PrintedAddr(a) ==
    CASE a = 257 -> "0101"
      [] a = 2056 -> "0808"
      [] a = 2057 -> "0809"
      [] a = 65535 -> "FFFF"

ReasonLines ==
    {Line("error", "bad bdcst pan!"), Line("error", "bad bdcst addr!"),
     Line("error", "mismatch pan!"), Line("error", "that ain't me"),
     Line("warn", "Failed to decode!")}

\* C6 as stated: a rejected or dropped frame produces exactly one log line,
\* counting those of process_message and those of the loop.
C6_Original ==
    (FrameDone /\ ~resp[1].ok) => Len(logs) = 1

\* C6 amended: a rejected or dropped frame produces exactly two log lines:
\* first the line of process_message that names the reason (error level for
\* the four addressing rejections, warning level for a decode failure), then
\* the loop's warning that carries the frame's source short address.
C6_TwoDiagnosticLines ==
    (FrameDone /\ ~resp[1].ok) =>
        /\ Len(logs) = 2
        /\ logs[1] \in ReasonLines
        /\ logs[1].level = (IF PassesAddressing THEN "warn" ELSE "error")
        /\ logs[2] = Line("warn", "^ Bad message from src 0x"
                                    \o PrintedAddr(hdr.source.short_addr))
        /\ data = <<>>

\* A frame not addressed to the modem, from 0x0101.
C6_Witness ==
    /\ FrameDone
    /\ hdr.source.short_addr = 257
    /\ logs = <<Line("error", "that ain't me"),
                Line("warn", "^ Bad message from src 0x0101")>>

\* C7: at most one receive handle exists in every state; none exists when the
\* loop is about to call receive(), and the one that exists outside the wait
\* has completed with a frame, a timeout or an error.
C7_OneReceiveOutstanding ==
    /\ rxHandles \in {0, 1}
    /\ pc \in {"Idle", "StartFailed"} => rxHandles = 0
    /\ pc = "AwaitingFrame" => rxHandles = 1 /\ waitResult = "None"
    /\ pc \in {"Dispatch", "TimedOut", "HardwareError"}
         => rxHandles = 1 /\ waitResult \in {"Frame", "Timeout", "Other"}

\* A receive is outstanding in an iteration that follows one ended by a
\* transport error.
C7_Witness ==
    /\ pc = "AwaitingFrame"
    /\ rxHandles = 1
    /\ strbuf = "RX: Phy"

\* C8: from every state of the loop control returns to Idle (Idle recurs for
\* ever) and receive() is attempted again and again: no start failure, timeout, transport error,
\* rejection or decode failure ends the loop or leaves it stuck.
C8_AlwaysBackToIdle ==
    /\ []<>(pc = "Idle")
    /\ []<><<ReceiveOk \/ ReceiveFail>>_vars

\* Back at Idle after a start failure, in a run that had a transport error
\* before.
C8_Witness ==
    /\ pc = "Idle"
    /\ startResult = "Err"
    /\ strbuf = "RX: Fcs"

\* C9: the step taken on a timeout emits the iteration's only log line, at
\* informational level, publishes nothing, uses the timer only for the armed
\* timeout (no delay) and ends at Idle, where the next step is receive().
C9_TimeoutIteration ==
    [][/\ pc = "TimedOut" =>
            /\ pc' = "Idle"
            /\ waitResult' = "Timeout"
            /\ logs' = <<Line("info", "RX Timeout")>>
            /\ data' = <<>>
            /\ timerOps' = <<[op |-> "start", cycles |-> 1000000]>>
       /\ (pc = "Idle" /\ waitResult = "Timeout") =>
            (ReceiveOk \/ ReceiveFail)]_vars

\* A timed-out iteration has ended.
C9_Witness ==
    /\ pc = "Idle"
    /\ waitResult = "Timeout"
    /\ logs = <<Line("info", "RX Timeout")>>

HasDelay(ops) == \E i \in 1..Len(ops) : ops[i].op = "delay"

\* C10: the step taken when receive() fails emits one warning, delays 250000
\* ticks and ends at Idle; that iteration arms no timeout, waits for no
\* frame, runs no validation or decoding and publishes nothing; and no
\* iteration whose receive() succeeded ever delays.
C10_StartFailure ==
    [][/\ pc = "StartFailed" =>
            /\ startResult = "Err"
            /\ pc' = "Idle"
            /\ logs' = <<Line("warn", "Failed to start receive!")>>
            /\ timerOps' = <<[op |-> "delay", cycles |-> 250000]>>
            /\ waitResult' = "None"
            /\ message' = <<>>
            /\ resp' = <<>>
            /\ data' = <<>>
       /\ (startResult = "Err" /\ pc = "Idle") => (ReceiveOk \/ ReceiveFail)
       /\ HasDelay(timerOps') => startResult' = "Err"]_vars

\* A failed start has been backed off and the loop is at Idle again.
C10_Witness ==
    /\ pc = "Idle"
    /\ startResult = "Err"
    /\ timerOps = <<[op |-> "delay", cycles |-> 250000]>>
    /\ logs = <<Line("warn", "Failed to start receive!")>>

\* C11: the step taken on a transport error other than timeout emits the
\* iteration's only log line, at error level and carrying the error detail,
\* publishes nothing, has run no validation or decoding, uses the timer only
\* for the armed timeout (no delay) and ends at Idle, where the next step is
\* receive().
C11_HardwareErrorIteration ==
    [][/\ pc = "HardwareError" =>
            /\ pc' = "Idle"
            /\ waitResult' = "Other"
            /\ error' \in RxErrors
            /\ logs' = <<[level |-> "error", text |-> "RX: " \o error']>>
            /\ data' = <<>>
            /\ resp' = <<>>
            /\ message' = <<>>
            /\ timerOps' = <<[op |-> "start", cycles |-> 1000000]>>
       /\ (pc = "Idle" /\ waitResult = "Other") =>
            (ReceiveOk \/ ReceiveFail)]_vars

\* An iteration ended by the transport error Fcs.
C11_Witness ==
    /\ pc = "Idle"
    /\ waitResult = "Other"
    /\ error = "Fcs"
    /\ logs = <<Line("error", "RX: Fcs")>>

\* C12: frames are handled one at a time in arrival order: the numbers of the
\* handled frames are 1, 2, 3, ... without gap or swap; the only arrived frame
\* not yet handled is the one being dispatched; when the loop is about to
\* start a receive every arrived frame has been handled, and the iteration
\* that ended emitted its one event or its diagnostics for its own frame.
C12_InArrivalOrder ==
    /\ \A i \in 1..Len(handled) : handled[i] = i
    /\ Len(handled) <= arrived
    /\ Len(handled) < arrived =>
           /\ pc = "Dispatch"
           /\ seqno = arrived
           /\ Len(handled) = arrived - 1
           /\ logs = <<>> /\ data = <<>>
    /\ pc \in {"Idle", "StartFailed", "AwaitingFrame"} =>
           Len(handled) = arrived
    /\ FrameDone =>
           /\ resp # <<>>
           /\ Len(data) = (IF resp[1].ok THEN 1 ELSE 0)
           /\ Len(data) + Len(logs) >= 1
           /\ seqno # 0 => handled[Len(handled)] = seqno

\* The second frame has been handled after the first, and published.
C12_Witness ==
    /\ FrameDone
    /\ arrived = 2
    /\ seqno = 2
    /\ handled = <<1, 2>>
    /\ Len(data) = 1

\* C13: a frame identical to one handled in an earlier iteration gets the
\* identical outcome: the same result of process_message (success with the
\* same event, or failure), the same log lines and the same published data,
\* whatever the loop did in between.
C13_SameFrameSameOutcome ==
    (/\ FrameDone
     /\ memo # <<>>
     /\ ~memo[1].fresh
     /\ memo[1].msg = message[1]) =>
        /\ resp = memo[1].resp
        /\ logs = memo[1].logs
        /\ data = memo[1].data

\* The remembered frame was rejected as the first frame to arrive and is
\* rejected again as the second, in a later iteration.
C13_Witness ==
    /\ FrameDone
    /\ memo # <<>>
    /\ ~memo[1].fresh
    /\ memo[1].msg = message[1]
    /\ ~resp[1].ok
    /\ seqno = 2
    /\ Len(logs) = 2

LoopWarning ==
    Line("warn", "^ Bad message from src 0x"
                   \o PrintedAddr(hdr.source.short_addr))

\* C14: the Dispatch step publishes an event exactly when process_message
\* returned success: on success data is that one event and the loop warns
\* nothing; on failure nothing is published and the loop adds exactly one
\* warning, which carries the frame's source short address; either way the
\* step ends at Idle, and no other step publishes.
C14_PublishIffSuccess ==
    [][/\ pc = "Dispatch" =>
            /\ pc' = "Idle"
            /\ message' = message
            /\ Len(resp') = 1
            /\ Len(data') <= 1
            /\ resp'[1].ok =>
                 /\ data' = <<resp'[1].event>>
                 /\ logs' = <<>>
            /\ ~resp'[1].ok =>
                 /\ data' = <<>>
                 /\ logs' = resp'[1].logged \o <<LoopWarning>>
                 /\ \A i \in 1..Len(resp'[1].logged) :
                      resp'[1].logged[i] # LoopWarning
       /\ (data' # data /\ data' # <<>>) => pc = "Dispatch"]_vars

\* A published frame: one event, no warning.
C14_Witness ==
    /\ FrameDone
    /\ resp[1].ok
    /\ data = <<resp[1].event>>
    /\ logs = <<>>

\* C15: an addressing rejection is logged by process_message itself, at error
\* level, with one of four texts that each name one check, and that line
\* comes before the loop's warning for the frame; a decode failure is logged
\* at warning level and leaves no error-level line.
C15_ReasonLoggedByValidator ==
    /\ (FrameDone /\ ~PassesAddressing) =>
          /\ Len(resp[1].logged) = 1
          /\ resp[1].logged[1].level = "error"
          /\ logs = <<resp[1].logged[1], LoopWarning>>
          /\ logs[1].text \in {"bad bdcst pan!", "bad bdcst addr!",
                               "mismatch pan!", "that ain't me"}
          /\ logs[1].text = "bad bdcst pan!"
               => hdr.source.pan_id = BROADCAST
          /\ logs[1].text = "bad bdcst addr!"
               => hdr.source.short_addr = BROADCAST
          /\ logs[1].text = "mismatch pan!"
               => hdr.destination.pan_id # hdr.source.pan_id
          /\ logs[1].text = "that ain't me"
               => hdr.destination.short_addr # MODEM_ADDR
    /\ (FrameDone /\ PassesAddressing /\ ~resp[1].ok) =>
          /\ logs = <<[level |-> "warn", text |-> "Failed to decode!"],
                      LoopWarning>>
          /\ ErrorLines = <<>>

\* A decode failure of a frame from 0x0101: two warnings, no error line.
C15_Witness ==
    /\ FrameDone
    /\ PassesAddressing
    /\ logs = <<Line("warn", "Failed to decode!"),
                Line("warn", "^ Bad message from src 0x0101")>>

\* C16: the loop moves only along the specified transitions: from Idle to
\* AwaitingFrame (receive() succeeded, and the 1,000,000-tick timeout is armed
\* before the wait) or to StartFailed; from AwaitingFrame to Dispatch on a
\* frame, TimedOut on timeout or HardwareError on a reported error; from
\* Dispatch, TimedOut, HardwareError and StartFailed to Idle.
C16_TransitionRelation ==
    [][/\ pc = "Idle" => pc' \in {"AwaitingFrame", "StartFailed"}
       /\ (pc = "Idle" /\ pc' = "AwaitingFrame") =>
            /\ startResult' = "Ok"
            /\ timerOps' = <<[op |-> "start", cycles |-> 1000000]>>
            /\ waitResult' = "None"
       /\ (pc = "Idle" /\ pc' = "StartFailed") =>
            /\ startResult' = "Err"
            /\ timerOps' = <<>>
       /\ pc = "AwaitingFrame" =>
            /\ timerOps = <<[op |-> "start", cycles |-> 1000000]>>
            /\ \/ pc' = "Dispatch" /\ waitResult' = "Frame"
                    /\ message' # <<>>
               \/ pc' = "TimedOut" /\ waitResult' = "Timeout"
               \/ pc' = "HardwareError" /\ waitResult' = "Other"
                    /\ error' # ""
       /\ pc \in {"Dispatch", "TimedOut", "HardwareError", "StartFailed"}
            => pc' = "Idle"]_vars

\* The wait has been entered with the timeout armed, after an earlier
\* iteration that handled a frame.
C16_Witness ==
    /\ pc = "AwaitingFrame"
    /\ timerOps = <<[op |-> "start", cycles |-> 1000000]>>
    /\ arrived = 1
    /\ handled = <<1>>

\* C17: every published event has dest 0x0808 and a source other than 0xFFFF,
\* and was made from a frame whose source pan is not broadcast and whose
\* destination pan equals its source pan.
C17_PublishedEventsAddressed ==
    \A i \in 1..Len(data) :
        /\ data[i].kind = "SetCell"
        /\ data[i].dest = 2056
        /\ data[i].source # 65535
        /\ message # <<>>
        /\ data[i].source = hdr.source.short_addr
        /\ hdr.source.pan_id # 65535
        /\ hdr.destination.pan_id = hdr.source.pan_id

\* An event published for a frame from 0x0809.
C17_Witness ==
    /\ Len(data) = 1
    /\ data[1].source = 2057
    /\ data[1].dest = 2056

SamePanFrame ==
    /\ hdr.source.pan_id = hdr.destination.pan_id
    /\ hdr.source.pan_id # BROADCAST
    /\ hdr.source.short_addr # BROADCAST
    /\ hdr.destination.short_addr = MODEM_ADDR

InPan(m, p) ==
    [m EXCEPT !.header.source.pan_id = p, !.header.destination.pan_id = p]

\* C18: a frame whose source and destination pan are the same non-broadcast
\* pan, whatever it is, whose source address is not broadcast and whose
\* destination is the modem passes the four checks (no error-level line) and
\* is published when its payload decodes; its outcome is the one the same
\* frame has in every other non-broadcast pan, the modem's own included.
C18_LocalPanNotCompared ==
    (FrameDone /\ SamePanFrame) =>
        /\ ErrorLines = <<>>
        /\ from_bytes(message[1].payload).ok =>
             /\ resp[1].ok
             /\ Len(data) = 1
             /\ data[1].source = hdr.source.short_addr
        /\ \A p \in PanIds \ {BROADCAST} :
             process_message(InPan(message[1], p)) = resp[1]

\* A frame in pan 0x0387, not the modem's, has been published.
C18_Witness ==
    /\ FrameDone
    /\ hdr.source.pan_id = 903
    /\ hdr.destination.pan_id = 903
    /\ Len(data) = 1

\* C19: for a frame that fails an addressing check the result and the log
\* lines are those of the same header with any other payload, decodable or
\* not; the decode warning is not among them and nothing is published.
C19_PayloadIgnoredOnRejection ==
    (FrameDone /\ ~PassesAddressing) =>
        /\ \A q \in Payloads :
             /\ process_message([message[1] EXCEPT !.payload = q]) = resp[1]
             /\ logs = process_message([message[1] EXCEPT !.payload = q]).logged
                         \o <<LoopWarning>>
        /\ \A i \in 1..Len(logs) : logs[i].text # "Failed to decode!"
        /\ data = <<>>

\* A frame not addressed to the modem whose payload would not decode.
C19_Witness ==
    /\ FrameDone
    /\ hdr.source = [pan_id |-> 902, short_addr |-> 257]
    /\ hdr.destination = [pan_id |-> 902, short_addr |-> 2057]
    /\ message[1].payload = <<1>>
    /\ logs[1] = Line("error", "that ain't me")

====
